---- MODULE Spec2Model ----
(***************************************************************************)
(* Model of scripts/csv_to_json.py: convert_csv_to_json and main.          *)
(*                                                                         *)
(* The input file is a header (fieldnames) followed by data lines, each a  *)
(* sequence of field strings.  csv.DictReader turns every non-blank line   *)
(* into a dict keyed by the header.  Floats are kept as integers counting  *)
(* hundredths (39.75 is 3975).  Python's None is the value NoneVal.        *)
(***************************************************************************)
EXTENDS Integers, Sequences, FiniteSets, TLC

VARIABLES
    fieldnames,  \* header of the input file, a sequence of column names
    lines,       \* data lines of the input file, each a sequence of fields
    limit,       \* <<>> for limit=None, <<n>> for limit=n
    pc,          \* position in convert_csv_to_json / main
    i,           \* enumerate index of the row loop
    sightings,   \* the accumulated list
    err,         \* exception caught by the outer handler, "none" if none
    dirState,    \* output directory: untouched | ensured (makedirs has run)
    jsonFile,    \* output file: [state: untouched | written, data]
    count,       \* value returned by convert_csv_to_json, -1 before return
    exitCode     \* process exit status, -1 while running

vars == <<fieldnames, lines, limit, pc, i, sightings, err, dirState,
          jsonFile, count, exitCode>>

-----------------------------------------------------------------------------
(* Bounds of the explored inputs *)

MaxRows == 3
MaxLimit == 2
MaxHdrRows == 2
MaxCoordRows == 2
MaxTextRows == 1

-----------------------------------------------------------------------------
(* Python values *)

NoneVal == "<None>"
RestKey == "<restkey>"

Falsy(v) == v = NoneVal \/ v = ""

Range(s) == {s[k] : k \in 1..Len(s)}

SeqsUpTo(S, n) == UNION {[1..k -> S] : k \in 0..n}

Dates == {"2026-11-03", "2026-11-04"}

-----------------------------------------------------------------------------
(* csv.DictReader *)

\* One dict per line: dict(zip(fieldnames, row)); fields beyond the header go
\* under the restkey, header columns beyond the fields get None.
DictRow(fn, fields) ==
    LET lf == Len(fn)
        lr == Len(fields)
        keys == Range(fn) \cup (IF lr > lf THEN {RestKey} ELSE {})
        last(c) == CHOOSE k \in 1..lf : fn[k] = c /\ \A m \in (k + 1)..lf : fn[m] # c
    IN  [c \in keys |->
            IF c = RestKey /\ c \notin Range(fn) THEN SubSeq(fields, lf + 1, lr)
            ELSE LET k == last(c) IN IF k > lr THEN NoneVal ELSE fields[k]]

\* DictReader skips blank lines; the remaining ones are what enumerate counts.
NonBlank(ls) == SelectSeq(ls, LAMBDA f : f # <<>>)

CsvRows(fn, ls) ==
    LET nonblank == NonBlank(ls)
    IN  [k \in 1..Len(nonblank) |-> DictRow(fn, nonblank[k])]

-----------------------------------------------------------------------------
(* Expressions of the loop body *)

\* row.get(key): no KeyError, None for an absent key
SubscriptGet(row, key) ==
    IF key \in DOMAIN row THEN [exc |-> "none", val |-> row[key]]
    ELSE [exc |-> "none", val |-> NoneVal]

\* row[key]
Subscript(row, key) ==
    IF key \in DOMAIN row THEN [exc |-> "none", val |-> row[key]]
    ELSE [exc |-> "KeyError", val |-> NoneVal]

\* float(s) on the strings that occur in the explored inputs
ParseFloat(s) ==
    CASE s = "39.75"   -> [exc |-> "none", val |-> 3975]
      [] s = "-84.19"  -> [exc |-> "none", val |-> 0 - 8419]
      [] s = "12.5"    -> [exc |-> "none", val |-> 1250]
      [] OTHER         -> [exc |-> "ValueError", val |-> 0]

\* i >= limit counts every row the reader yields
LimitReached(idx, lim) == lim # <<>> /\ idx >= lim[1]

\* only the datetime is tested
MissingCriticalDatetimeOnly(row) ==
    LET d == Subscript(row, "datetime")
    IN  IF d.exc # "none" THEN "KeyError"
        ELSE IF Falsy(d.val) THEN "skip"
        ELSE "ok"

\* not row['datetime'] or not row['city']
MissingCritical(row) ==
    LET d == Subscript(row, "datetime")
        c == Subscript(row, "city")
    IN  IF d.exc # "none" THEN "KeyError"
        ELSE IF Falsy(d.val) THEN "skip"
        ELSE IF c.exc # "none" THEN "KeyError"
        ELSE IF Falsy(c.val) THEN "skip"
        ELSE "ok"

\* the unsuffixed name first
LngKeyPlainFirst(row) == IF "longitude" \in DOMAIN row THEN "longitude" ELSE "longitude "

\* 'longitude ' if 'longitude ' in row else 'longitude'
LngKey(row) == IF "longitude " \in DOMAIN row THEN "longitude " ELSE "longitude"

\* float(row[k]) if row[k] else 0.0
FloatOrZero(row, key) ==
    LET s == Subscript(row, key)
    IN  IF s.exc # "none" THEN [exc |-> s.exc, val |-> 0]
        ELSE IF Falsy(s.val) THEN [exc |-> "none", val |-> 0]
        ELSE ParseFloat(s.val)

\* body of the try block
TryCoordinates(row) ==
    LET la == FloatOrZero(row, "latitude")
        lo == FloatOrZero(row, LngKey(row))
    IN  IF la.exc # "none" THEN [exc |-> la.exc, lat |-> 0, lng |-> 0]
        ELSE IF lo.exc # "none" THEN [exc |-> lo.exc, lat |-> la.val, lng |-> 0]
        ELSE [exc |-> "none", lat |-> la.val, lng |-> lo.val]

\* handler that catches KeyError only
CoordinatesKeyErrorOnly(row) ==
    LET t == TryCoordinates(row)
    IN  IF t.exc = "KeyError" THEN [exc |-> "none", lat |-> 0, lng |-> 0] ELSE t

\* handler that catches ValueError only
CoordinatesValueErrorOnly(row) ==
    LET t == TryCoordinates(row)
    IN  IF t.exc = "ValueError" THEN [exc |-> "none", lat |-> 0, lng |-> 0] ELSE t

\* try ... except (ValueError, KeyError): lat, lng = 0.0, 0.0
Coordinates(row) ==
    LET t == TryCoordinates(row)
    IN  IF t.exc \in {"ValueError", "KeyError"}
        THEN [exc |-> "none", lat |-> 0, lng |-> 0]
        ELSE t

\* no default applied
OrDefaultNever(v, d) == v

\* v or d
OrDefault(v, d) == IF Falsy(v) THEN d ELSE v

SightingColumns ==
    {"datetime", "city", "state", "country", "shape", "duration (hours/min)",
     "comments", "date posted"}

NoSighting ==
    [dateTime |-> "", city |-> "", state |-> "", country |-> "", shape |-> "",
     duration |-> "", summary |-> "", posted |-> "", latitude |-> 0, longitude |-> 0]

\* the dict literal
Sighting(row, lat, lng, now) ==
    IF \E c \in SightingColumns : Subscript(row, c).exc # "none"
    THEN [exc |-> "KeyError", rec |-> NoSighting]
    ELSE [exc |-> "none",
          rec |-> [dateTime  |-> Subscript(row, "datetime").val,
                   city      |-> Subscript(row, "city").val,
                   state     |-> Subscript(row, "state").val,
                   country   |-> OrDefault(Subscript(row, "country").val, "Unknown"),
                   shape     |-> OrDefault(Subscript(row, "shape").val, "Unknown"),
                   duration  |-> OrDefault(Subscript(row, "duration (hours/min)").val, "Unknown"),
                   summary   |-> OrDefault(Subscript(row, "comments").val, ""),
                   posted    |-> OrDefault(Subscript(row, "date posted").val, now),
                   latitude  |-> lat,
                   longitude |-> lng]]

\* one pass of the loop body after the limit test: skip, emit or raise
RowOutcome(row, now) ==
    LET crit == MissingCritical(row)
        co == Coordinates(row)
        s == Sighting(row, co.lat, co.lng, now)
    IN  IF crit = "KeyError" THEN [kind |-> "raise", exc |-> "KeyError", rec |-> NoSighting]
        ELSE IF crit = "skip" THEN [kind |-> "skip", exc |-> "none", rec |-> NoSighting]
        ELSE IF co.exc # "none" THEN [kind |-> "raise", exc |-> co.exc, rec |-> NoSighting]
        ELSE IF s.exc # "none" THEN [kind |-> "raise", exc |-> s.exc, rec |-> NoSighting]
        ELSE [kind |-> "emit", exc |-> "none", rec |-> s.rec]

\* the whole row loop as a function of the file
RECURSIVE LoopFrom(_, _, _, _, _)
LoopFrom(rows, idx, lim, acc, now) ==
    IF idx >= Len(rows) THEN [exc |-> "none", sightings |-> acc]
    ELSE IF LimitReached(idx, lim) THEN [exc |-> "none", sightings |-> acc]
    ELSE LET o == RowOutcome(rows[idx + 1], now)
         IN  IF o.kind = "raise" THEN [exc |-> o.exc, sightings |-> acc]
             ELSE IF o.kind = "skip" THEN LoopFrom(rows, idx + 1, lim, acc, now)
             ELSE LoopFrom(rows, idx + 1, lim, Append(acc, o.rec), now)

Transform(fn, ls, lim, now) == LoopFrom(CsvRows(fn, ls), 0, lim, <<>>, now)

-----------------------------------------------------------------------------
(* Explored input files *)

FullHeader ==
    <<"datetime", "city", "state", "country", "shape", "duration (hours/min)",
      "comments", "date posted", "latitude", "longitude ">>

RequiredColumns ==
    {"datetime", "city", "state", "country", "shape", "duration (hours/min)",
     "comments", "date posted", "latitude"}

Without(h, c) == SelectSeq(h, LAMBDA x : x # c)

RenameColumn(h, from, to) == [k \in 1..Len(h) |-> IF h[k] = from THEN to ELSE h[k]]

LongitudeHeaders ==
    {FullHeader,
     RenameColumn(FullHeader, "longitude ", "longitude"),
     Append(FullHeader, "longitude"),
     Without(FullHeader, "longitude ")}

Headers ==
    LongitudeHeaders \cup {Without(FullHeader, c) : c \in RequiredColumns} \cup {<<>>}

BaseValues ==
    [c \in Range(FullHeader) \cup {"longitude"} |->
        CASE c = "datetime"             -> "1/1/2020 20:00"
          [] c = "city"                 -> "dayton"
          [] c = "state"                -> "oh"
          [] c = "country"              -> "us"
          [] c = "shape"                -> "circle"
          [] c = "duration (hours/min)" -> "5 minutes"
          [] c = "comments"             -> "bright light"
          [] c = "date posted"          -> "1/2/2020"
          [] c = "latitude"             -> "39.75"
          [] OTHER                      -> "-84.19"]

\* the line whose field under column c is t[c]
LineOf(h, t) == [k \in 1..Len(h) |-> t[h[k]]]

KeyTemplates ==
    {[BaseValues EXCEPT !["datetime"] = d, !["city"] = c] :
        d \in {"", "1/1/2020 20:00"}, c \in {"", "dayton"}}

CoordTemplates ==
    {[BaseValues EXCEPT !["latitude"] = la, !["longitude "] = ls, !["longitude"] = lp] :
        la \in {"", "abc", "39.75"}, ls \in {"", "abc", "-84.19"}, lp \in {"", "12.5"}}
    \cup {[BaseValues EXCEPT !["city"] = ""]}

TextTemplates ==
    {[BaseValues EXCEPT !["state"] = st, !["country"] = co, !["shape"] = sh,
                        !["duration (hours/min)"] = du, !["comments"] = cm,
                        !["date posted"] = dp] :
        st \in {"", "oh"}, co \in {"", "us"}, sh \in {"", "circle"},
        du \in {"", "5 minutes"}, cm \in {"", "bright light"}, dp \in {"", "1/2/2020"}}

Limits == {<<>>} \cup {<<n>> : n \in 0..MaxLimit}

\* rows that differ in datetime and city, and blank lines
KeyInputs ==
    LET pool == {LineOf(FullHeader, BaseValues),
                 LineOf(FullHeader, [BaseValues EXCEPT !["datetime"] = "1/2/2020 21:30"]),
                 LineOf(FullHeader, [BaseValues EXCEPT !["datetime"] = ""]),
                 LineOf(FullHeader, [BaseValues EXCEPT !["city"] = ""]),
                 <<>>}
    IN  {[fieldnames |-> FullHeader, lines |-> ls, limit |-> lim] :
            ls \in SeqsUpTo(pool, MaxRows), lim \in Limits}

\* headers with a column absent
HeaderInputs ==
    UNION {{[fieldnames |-> h, lines |-> ls, limit |-> lim] :
                ls \in SeqsUpTo({LineOf(h, t) : t \in KeyTemplates},
                                MaxHdrRows),
                lim \in {<<>>, <<0>>, <<1>>}} :
           h \in Headers}

\* rows that differ in the coordinate fields
CoordInputs ==
    UNION {{[fieldnames |-> h, lines |-> ls, limit |-> <<>>] :
                ls \in SeqsUpTo({LineOf(h, t) : t \in CoordTemplates}, MaxCoordRows)} :
           h \in LongitudeHeaders \cup {Without(FullHeader, "latitude")}}

\* rows that differ in the text fields, every truncation of a full line, and a
\* line with a field too many
TextInputs ==
    LET full == LineOf(FullHeader, BaseValues)
        pool == {LineOf(FullHeader, t) : t \in TextTemplates}
                \cup {SubSeq(full, 1, k) : k \in 1..Len(full)}
                \cup {Append(full, "extra")}
    IN  {[fieldnames |-> FullHeader, lines |-> ls, limit |-> <<>>] :
            ls \in SeqsUpTo(pool, MaxTextRows)}

Inputs == KeyInputs \cup HeaderInputs \cup CoordInputs \cup TextInputs

\* the output file as the run found it, existing or not
Untouched == [state |-> "untouched", data |-> <<>>]

-----------------------------------------------------------------------------
(* The program *)

Init ==
    /\ \E inp \in Inputs :
          /\ fieldnames = inp.fieldnames
          /\ lines = inp.lines
          /\ limit = inp.limit
    /\ dirState = "untouched"
    /\ jsonFile = Untouched
    /\ pc = "open"
    /\ i = 0
    /\ sightings = <<>>
    /\ err = "none"
    /\ count = 0 - 1
    /\ exitCode = 0 - 1

\* what the reader yields for this file
NumRows == Len(NonBlank(lines))

RowAt(j) == DictRow(fieldnames, NonBlank(lines)[j])

\* open(input_file) succeeds; the header and first-row prints change nothing
OpenInput ==
    /\ pc = "open"
    /\ pc' = "loop"
    /\ UNCHANGED <<fieldnames, lines, limit, i, sightings, err, dirState,
                   jsonFile, count, exitCode>>

\* open(input_file) raises
OpenInputFails ==
    /\ pc = "open"
    /\ pc' = "except"
    /\ err' = "FileNotFoundError"
    /\ UNCHANGED <<fieldnames, lines, limit, i, sightings, dirState,
                   jsonFile, count, exitCode>>

\* the reader is exhausted
Exhausted ==
    /\ pc = "loop"
    /\ i >= NumRows
    /\ pc' = "makedirs"
    /\ UNCHANGED <<fieldnames, lines, limit, i, sightings, err, dirState,
                   jsonFile, count, exitCode>>

\* if limit is not None and i >= limit: break
LimitBreak ==
    /\ pc = "loop"
    /\ i < NumRows
    /\ LimitReached(i, limit)
    /\ pc' = "makedirs"
    /\ UNCHANGED <<fieldnames, lines, limit, i, sightings, err, dirState,
                   jsonFile, count, exitCode>>

\* continue
SkipRow ==
    /\ pc = "loop"
    /\ i < NumRows
    /\ ~LimitReached(i, limit)
    /\ \E now \in Dates : RowOutcome(RowAt(i + 1), now).kind = "skip"
    /\ i' = i + 1
    /\ UNCHANGED <<fieldnames, lines, limit, pc, sightings, err, dirState,
                   jsonFile, count, exitCode>>

\* a loop body that also rewrites the output file after every record
EmitRowStreaming ==
    /\ pc = "loop"
    /\ i < NumRows
    /\ ~LimitReached(i, limit)
    /\ \E now \in Dates :
          LET o == RowOutcome(RowAt(i + 1), now)
          IN  /\ o.kind = "emit"
              /\ sightings' = Append(sightings, o.rec)
              /\ jsonFile' = [state |-> "written", data |-> Append(sightings, o.rec)]
    /\ i' = i + 1
    /\ UNCHANGED <<fieldnames, lines, limit, pc, err, dirState, count, exitCode>>

\* a loop body that inserts the record at the front of the list
EmitRowPrepend ==
    /\ pc = "loop"
    /\ i < NumRows
    /\ ~LimitReached(i, limit)
    /\ \E now \in Dates :
          LET o == RowOutcome(RowAt(i + 1), now)
          IN  /\ o.kind = "emit"
              /\ sightings' = <<o.rec>> \o sightings
    /\ i' = i + 1
    /\ UNCHANGED <<fieldnames, lines, limit, pc, err, dirState, jsonFile,
                   count, exitCode>>

\* sightings.append(sighting)
EmitRow ==
    /\ pc = "loop"
    /\ i < NumRows
    /\ ~LimitReached(i, limit)
    /\ \E now \in Dates :
          LET o == RowOutcome(RowAt(i + 1), now)
          IN  /\ o.kind = "emit"
              /\ sightings' = Append(sightings, o.rec)
    /\ i' = i + 1
    /\ UNCHANGED <<fieldnames, lines, limit, pc, err, dirState, jsonFile,
                   count, exitCode>>

\* an exception leaves the loop body for the outer handler
RowRaises ==
    /\ pc = "loop"
    /\ i < NumRows
    /\ ~LimitReached(i, limit)
    /\ \E now \in Dates :
          LET o == RowOutcome(RowAt(i + 1), now)
          IN  /\ o.kind = "raise"
              /\ err' = o.exc
    /\ pc' = "except"
    /\ UNCHANGED <<fieldnames, lines, limit, i, sightings, dirState, jsonFile,
                   count, exitCode>>

\* os.makedirs(..., exist_ok=True): the directory exists from here on
MakeDirs ==
    /\ pc = "makedirs"
    /\ dirState' = "ensured"
    /\ pc' = "dump"
    /\ UNCHANGED <<fieldnames, lines, limit, i, sightings, err, jsonFile,
                   count, exitCode>>

\* os.makedirs raises: the directory is absent and cannot be created
MakeDirsFails ==
    /\ pc = "makedirs"
    /\ pc' = "except"
    /\ err' = "OSError"
    /\ UNCHANGED <<fieldnames, lines, limit, i, sightings, dirState, jsonFile,
                   count, exitCode>>

\* open(output_file, 'w') and json.dump(sightings)
WriteJson ==
    /\ pc = "dump"
    /\ jsonFile' = [state |-> "written", data |-> sightings]
    /\ pc' = "return"
    /\ UNCHANGED <<fieldnames, lines, limit, i, sightings, err, dirState,
                   count, exitCode>>

\* open(output_file, 'w') raises
WriteJsonFails ==
    /\ pc = "dump"
    /\ pc' = "except"
    /\ err' = "OSError"
    /\ UNCHANGED <<fieldnames, lines, limit, i, sightings, dirState, jsonFile,
                   count, exitCode>>

\* return len(sightings)
Return ==
    /\ pc = "return"
    /\ count' = Len(sightings)
    /\ pc' = "main"
    /\ UNCHANGED <<fieldnames, lines, limit, i, sightings, err, dirState,
                   jsonFile, exitCode>>

\* except Exception: ... sys.exit(1)
Except ==
    /\ pc = "except"
    /\ exitCode' = 1
    /\ pc' = "exited"
    /\ UNCHANGED <<fieldnames, lines, limit, i, sightings, err, dirState,
                   jsonFile, count>>

\* main prints the count and falls off its end
MainEnds ==
    /\ pc = "main"
    /\ exitCode' = 0
    /\ pc' = "exited"
    /\ UNCHANGED <<fieldnames, lines, limit, i, sightings, err, dirState,
                   jsonFile, count>>

Next ==
    \/ OpenInput
    \/ OpenInputFails
    \/ Exhausted
    \/ LimitBreak
    \/ SkipRow
    \/ EmitRow
    \/ RowRaises
    \/ MakeDirs
    \/ MakeDirsFails
    \/ WriteJson
    \/ WriteJsonFails
    \/ Return
    \/ Except
    \/ MainEnds

Spec == Init /\ [][Next]_vars

-----------------------------------------------------------------------------
(* Type correctness *)

TypeOK ==
    /\ pc \in {"open", "loop", "makedirs", "dump", "return", "except", "main", "exited"}
    /\ i \in 0..NumRows
    /\ Len(sightings) <= i
    /\ err \in {"none", "FileNotFoundError", "KeyError", "ValueError", "OSError"}
    /\ exitCode \in {0 - 1, 0, 1}
    /\ dirState \in {"untouched", "ensured"}

-----------------------------------------------------------------------------
(* Vocabulary of the properties *)

Min(a, b) == IF a <= b THEN a ELSE b

HeaderSet == Range(fieldnames)

HasRequired == RequiredColumns \subseteq HeaderSet

NoLongitudeColumn == "longitude" \notin HeaderSet /\ "longitude " \notin HeaderSet

\* a row with non-empty datetime and city
Valid(row) ==
    /\ "datetime" \in DOMAIN row
    /\ ~Falsy(row["datetime"])
    /\ "city" \in DOMAIN row
    /\ ~Falsy(row["city"])

\* the valid rows among the first n the reader yields, in file order
ValidRows(n) == SelectSeq([j \in 1..n |-> RowAt(j)], Valid)

\* the row loop has ended without an exception
LoopFinished ==
    \/ pc \in {"makedirs", "dump", "return", "main"}
    \/ pc \in {"except", "exited"} /\ err \in {"none", "OSError"}

Succeeded == pc = "exited" /\ exitCode = 0

\* number of rows the loop may look at before the limit stops it
ScanBound == IF limit = <<>> THEN NumRows ELSE Min(limit[1], NumRows)

\* the 0.0 fallback applied to one field on its own
OwnCoordinate(row, key) ==
    IF key \notin DOMAIN row \/ Falsy(row[key]) THEN 0
    ELSE IF ParseFloat(row[key]).exc = "none" THEN ParseFloat(row[key]).val
    ELSE 0

\* records with a defaulted posted date made comparable across clock readings
NormPosted(recs) ==
    [k \in 1..Len(recs) |->
        IF recs[k].posted \in Dates THEN [recs[k] EXCEPT !.posted = "<today>"] ELSE recs[k]]

\* what the loop of this run has produced, as Transform reports it
LoopResult ==
    [exc |-> IF err \in {"KeyError", "ValueError"} THEN err ELSE "none",
     sightings |-> NormPosted(sightings)]

TransformOf(fn) ==
    LET t == Transform(fn, lines, limit, "<today>")
    IN  [exc |-> t.exc, sightings |-> NormPosted(t.sightings)]

-----------------------------------------------------------------------------
(* C1 *)

\* C1: with limit = N the loop ends with exactly min(N, number of valid rows)
\* records, skipped rows not counting against the limit.
C1_LimitCountsRecords ==
    (LoopFinished /\ limit # <<>> /\ HasRequired /\ ~NoLongitudeColumn)
        => Len(sightings) = Min(limit[1], Len(ValidRows(NumRows)))

-----------------------------------------------------------------------------
(* C2 *)

KeysOfRows(rows) == [k \in 1..Len(rows) |-> <<rows[k]["datetime"], rows[k]["city"]>>]

KeysOfRecords(recs) == [k \in 1..Len(recs) |-> <<recs[k].dateTime, recs[k].city>>]

\* C2: with all required columns in the header the records are, in order, the
\* rows read so far that have non-empty datetime and city, and without a limit
\* the loop ends only when every row has been read.
C2_ValidSubsequence ==
    HasRequired =>
        /\ KeysOfRecords(sightings) = KeysOfRows(ValidRows(i))
        /\ (LoopFinished /\ limit = <<>>) => i = NumRows

C2_Witness ==
    /\ Succeeded
    /\ HasRequired
    /\ limit = <<>>
    /\ NumRows = 3
    /\ ~Valid(RowAt(2))
    /\ Len(sightings) = 2
    /\ sightings[1].dateTime # sightings[2].dateTime

-----------------------------------------------------------------------------
(* C3 *)

\* C3 as stated: without a longitude column no record is ever emitted and a
\* run that has read a valid row does not succeed.
C3_MissingLongitudeFatal ==
    NoLongitudeColumn =>
        /\ sightings = <<>>
        /\ Succeeded => Len(ValidRows(ScanBound)) = 0

\* C3 amended: without a longitude column (the other columns present) the
\* lookup failure is caught: no KeyError reaches the outer handler, every valid
\* row read so far has its record, and each record has longitude 0.0.
C3_MissingLongitudeFallsBack ==
    (NoLongitudeColumn /\ SightingColumns \subseteq HeaderSet) =>
        /\ err # "KeyError"
        /\ Len(sightings) = Len(ValidRows(i))
        /\ \A k \in 1..Len(sightings) : sightings[k].longitude = 0

C3_Witness ==
    /\ NoLongitudeColumn
    /\ Succeeded
    /\ Len(sightings) >= 1
    /\ jsonFile.state = "written"

-----------------------------------------------------------------------------
(* C4 *)

\* C4: each coordinate of a record is the parse of its own field, 0.0 when
\* that field is empty or unparseable, whatever the other field holds.
C4_CoordinatesIndependent ==
    (HasRequired /\ ~NoLongitudeColumn) =>
        LET valid == ValidRows(i)
        IN  \A k \in 1..Min(Len(sightings), Len(valid)) :
            LET row == valid[k]
            IN  /\ sightings[k].latitude = OwnCoordinate(row, "latitude")
                /\ sightings[k].longitude = OwnCoordinate(row, LngKey(row))

-----------------------------------------------------------------------------
(* C5 *)

MissingRequired == \E c \in RequiredColumns : c \notin HeaderSet

MissingTextColumn == \E c \in SightingColumns : c \notin HeaderSet

\* the row subscripts a column the header lacks
ReadsAbsentColumn(row) ==
    IF "datetime" \notin DOMAIN row THEN TRUE
    ELSE IF Falsy(row["datetime"]) THEN FALSE
    ELSE IF "city" \notin DOMAIN row THEN TRUE
    ELSE IF Falsy(row["city"]) THEN FALSE
    ELSE \E c \in SightingColumns : c \notin DOMAIN row

\* C5 as stated: with a required column absent the run never succeeds and
\* never writes the output file.
C5_MissingColumnAlwaysFatal ==
    MissingRequired => (~Succeeded /\ jsonFile.state # "written")

\* C5 amended: with one of the eight non-coordinate columns absent no record
\* is ever emitted, and the run fails with KeyError exactly when the loop
\* reaches, before the limit stops it, a row that subscripts the absent column;
\* then it exits 1 and leaves the output file alone.  Otherwise the loop ends
\* normally.  An absent latitude column alone raises no KeyError.
C5_MissingColumnFatalWhenRead ==
    /\ MissingTextColumn =>
          /\ sightings = <<>>
          /\ jsonFile.data = <<>>
          /\ err = "KeyError" => \E j \in 1..ScanBound : ReadsAbsentColumn(RowAt(j))
          /\ LoopFinished => \A j \in 1..ScanBound : ~ReadsAbsentColumn(RowAt(j))
          /\ (pc = "exited" /\ err = "KeyError") => (exitCode = 1 /\ jsonFile = Untouched)
    /\ (~MissingTextColumn /\ "latitude" \notin HeaderSet) => err # "KeyError"

C5_Witness ==
    /\ MissingTextColumn
    /\ "datetime" \in HeaderSet
    /\ "city" \in HeaderSet
    /\ pc = "exited"
    /\ exitCode = 1
    /\ err = "KeyError"
    /\ i = 1

-----------------------------------------------------------------------------
(* C6 *)

\* C6: a row with empty or missing datetime or city leaves no record and
\* raises nothing, and without a limit the loop goes on to the last row.
C6_SkipIsSilent ==
    /\ Len(sightings) = Len(ValidRows(i))
    /\ (err = "KeyError" /\ {"datetime", "city"} \subseteq HeaderSet) => Valid(RowAt(i + 1))
    /\ (LoopFinished /\ limit = <<>>) => i = NumRows
    /\ (Succeeded /\ limit = <<>>) => Len(jsonFile.data) = Len(ValidRows(NumRows))

C6_Witness ==
    /\ Succeeded
    /\ limit = <<>>
    /\ NumRows >= 2
    /\ ~Valid(RowAt(1))
    /\ Valid(RowAt(2))
    /\ RowAt(1)["datetime"] # ""
    /\ Len(sightings) >= 1

-----------------------------------------------------------------------------
(* C7 *)

\* C7: the string fields of every record follow the default table applied to
\* its row, and country, shape, duration and posted are never empty.
C7_StringFields ==
    SightingColumns \subseteq HeaderSet =>
        LET valid == ValidRows(i)
        IN
        /\ Len(sightings) = Len(valid)
        /\ \A k \in 1..Min(Len(sightings), Len(valid)) :
              LET row == valid[k]
                  r == sightings[k]
              IN  /\ r.dateTime = row["datetime"]
                  /\ r.city = row["city"]
                  /\ r.state = row["state"]
                  /\ r.country = (IF Falsy(row["country"]) THEN "Unknown" ELSE row["country"])
                  /\ r.shape = (IF Falsy(row["shape"]) THEN "Unknown" ELSE row["shape"])
                  /\ r.duration = (IF Falsy(row["duration (hours/min)"]) THEN "Unknown"
                                   ELSE row["duration (hours/min)"])
                  /\ r.summary = (IF Falsy(row["comments"]) THEN "" ELSE row["comments"])
                  /\ IF Falsy(row["date posted"]) THEN r.posted \in Dates
                     ELSE r.posted = row["date posted"]
                  /\ \A v \in {r.country, r.shape, r.duration, r.posted} : ~Falsy(v)

C7_Witness ==
    /\ Succeeded
    /\ Len(sightings) = 1
    /\ RowAt(1)["country"] = ""
    /\ RowAt(1)["date posted"] = ""
    /\ sightings[1].country = "Unknown"
    /\ sightings[1].posted \in Dates

-----------------------------------------------------------------------------
(* C8 *)

HasOneLongitude == ("longitude" \in HeaderSet) # ("longitude " \in HeaderSet)

HasBothLongitudes == "longitude" \in HeaderSet /\ "longitude " \in HeaderSet

\* the header with the longitude column under its other name
OtherLongitudeName(fn) ==
    [k \in 1..Len(fn) |->
        IF fn[k] = "longitude" THEN "longitude "
        ELSE IF fn[k] = "longitude " THEN "longitude"
        ELSE fn[k]]

\* C8: the loop's result is the one the same lines give under the header with
\* the longitude column renamed, and with both columns present it is the one
\* they give when the unsuffixed column is not a longitude column at all.
C8_LongitudeNameIrrelevant ==
    (LoopFinished \/ err \in {"KeyError", "ValueError"}) =>
        /\ HasOneLongitude => LoopResult = TransformOf(OtherLongitudeName(fieldnames))
        /\ HasBothLongitudes =>
              LoopResult = TransformOf(RenameColumn(fieldnames, "longitude", "unused"))

C8_Witness ==
    /\ Succeeded
    /\ HasBothLongitudes
    /\ Len(sightings) = 1
    /\ RowAt(1)["longitude"] = "12.5"
    /\ RowAt(1)["longitude "] = "-84.19"
    /\ sightings[1].longitude = 0 - 8419

-----------------------------------------------------------------------------
(* C9 *)

\* C9: with all required columns in the header only the input open, the
\* directory creation or the output write can raise; no row does.
C9_RowsNeverAbort ==
    HasRequired =>
        /\ err \in {"none", "FileNotFoundError", "OSError"}
        /\ pc = "except" => (i = 0 \/ LoopFinished)
        /\ (pc = "exited" /\ exitCode = 1) => err \in {"FileNotFoundError", "OSError"}

C9_Witness ==
    /\ Succeeded
    /\ HasRequired
    /\ NumRows = 2
    /\ RowAt(1)["latitude"] = "abc"
    /\ RowAt(2)["city"] = ""
    /\ Len(jsonFile.data) = 1

-----------------------------------------------------------------------------
(* C10 *)

LoopEnded == i >= NumRows \/ LimitReached(i, limit)

\* C10: the directory is created and the file written only after the loop has
\* ended, the file holds the whole list, a failure while opening or reading
\* leaves both untouched, and the returned count is the length of the file.
C10_WriteAfterLoop ==
    /\ jsonFile.state = "written" =>
          /\ pc \in {"return", "main", "exited"}
          /\ err = "none"
          /\ LoopEnded
          /\ jsonFile.data = sightings
    /\ dirState = "ensured" =>
          /\ pc \in {"dump", "return", "main", "except", "exited"}
          /\ err \in {"none", "OSError"}
          /\ LoopEnded
    /\ err \in {"FileNotFoundError", "KeyError", "ValueError"} =>
          (jsonFile = Untouched /\ dirState = "untouched")
    /\ pc \in {"open", "loop", "makedirs"} => (jsonFile = Untouched /\ dirState = "untouched")
    /\ (pc = "main" \/ Succeeded) =>
          (jsonFile.state = "written" /\ count = Len(jsonFile.data))

C10_Witness ==
    /\ Succeeded
    /\ dirState = "ensured"
    /\ count = 2
    /\ NumRows = 3
    /\ jsonFile.data = sightings

====
